---- MODULE Spec2Model ----
(***************************************************************************)
(* Model of CopyCache (manager.py): the bounded multi-slot Clipboard, the  *)
(* MenuState machine built on transitions.Machine, the CommandManager      *)
(* whose command handlers act on the Clipboard, the KeyInterceptor that    *)
(* turns press / release events into combinations, and HotkeyComparator.   *)
(***************************************************************************)
EXTENDS Integers, Sequences, FiniteSets, TLC

\* ------------------------------------------------------------------------
\* Bounds of the model
\* ------------------------------------------------------------------------
\* Largest max_size a Clipboard is constructed with.
MaxCapacity == 3
\* Slot indices passed to copy / paste are 1..MaxIndex.
MaxIndex == 4
\* Texts the system clipboard can hold are 1..NumTexts.
NumTexts == 2
\* Slot indices handed to the menu triggers are 1..MaxMenuIndex.
MaxMenuIndex == 2
\* The keyboard has the first NumKeys keys of KeyNames.
NumKeys == 3
\* Key events the listener delivers in one run.
MaxEvents == 6
\* Entries of the combinations handed to is_subset.
MaxCombo == 3
\* Distinct HotkeyState objects of one key and state handed to is_subset.
NumObjects == 1

Capacities == 1..MaxCapacity
Indices == 1..MaxIndex
Texts == 1..NumTexts

VARIABLES
    max_size,   \* Clipboard.max_size
    buffer,     \* Clipboard.buffer: a dict, kept as its items in insertion order
    sysclip,    \* the system clipboard (pyperclip), shared with the user
    last,       \* the last call on the Clipboard and what it printed / simulated
    nCopies,    \* history: successful copy calls since construction or the last clear
    copied,     \* history: <<index, text>> of the last successful copy of each index since the last clear
    order,      \* history: indices in the order they were first occupied since the last clear
    cleared,    \* history: the indices the last clear emptied (until the next successful copy)
    state,      \* MenuState.state, maintained by transitions.Machine
    call,       \* the last call on the menu / command manager and what it caused
    pressed_keys,   \* KeyInterceptor.pressed_keys
    combination,    \* KeyInterceptor.combination: an OrderedDict key -> HotkeyState, as its items in order
    keylog,         \* history: the press / release events the listener has delivered
    finalized,      \* the combination finalize_combination read and printed at its last run
    observed,       \* the combination the callback printed at its last run
    nFinal,         \* history: number of finalize callbacks run
    firstPress,     \* history: keys in the order they were first pressed since the combination was last cleared
    matched,        \* history: the commands the finalize callback triggered on the menu
    subset,         \* HotkeyComparator.is_subset: its first argument
    superset,       \* HotkeyComparator.is_subset: its second argument
    answer          \* what is_subset returned: "none" before the call, else a boolean

storeVars == <<max_size, buffer, sysclip, last, nCopies, copied, order, cleared>>
menuVars == <<state, call>>
keyVars == <<pressed_keys, combination, keylog, finalized, observed, nFinal, firstPress, matched>>
cmpVars == <<subset, superset, answer>>
vars == <<max_size, buffer, sysclip, last, nCopies, copied, order, cleared, state, call,
          pressed_keys, combination, keylog, finalized, observed, nFinal, firstPress, matched,
          subset, superset, answer>>

\* ------------------------------------------------------------------------
\* Python dict, as the sequence of its items in insertion order
\* ------------------------------------------------------------------------
DictKeys(d) == {d[p].index : p \in 1..Len(d)}

DictHas(d, k) == \E p \in 1..Len(d) : d[p].index = k

DictGet(d, k) == d[CHOOSE p \in 1..Len(d) : d[p].index = k].text

\* A re-assigned key moves to the end (as OrderedDict.move_to_end would).
DictSetMovesToEnd(d, k, v) ==
    Append(SelectSeq(d, LAMBDA e : e.index # k), [index |-> k, text |-> v])

\* d[k] = v: an existing key keeps its position, a new key is appended.
DictSet(d, k, v) ==
    IF DictHas(d, k)
    THEN [p \in 1..Len(d) |-> IF d[p].index = k THEN [index |-> k, text |-> v] ELSE d[p]]
    ELSE Append(d, [index |-> k, text |-> v])

DictItems(d) == [p \in 1..Len(d) |-> <<d[p].index, d[p].text>>]

\* ------------------------------------------------------------------------
\* Clipboard
\* ------------------------------------------------------------------------
\* The capacity test with > in place of >=.
BufferIsFullOffByOne(buf, cap) == Len(buf) > cap

\* len(self.buffer) >= self.max_size
BufferIsFull(buf, cap) == Len(buf) >= cap

Result(buf, clip, msg, keystroke, emitted) ==
    [buffer |-> buf, sysclip |-> clip, msg |-> msg, keystroke |-> keystroke, emitted |-> emitted]

\* A copy whose capacity test lets an already occupied index through.
ClipboardCopyOverwritesWhenFull(buf, cap, clip, index) ==
    IF BufferIsFull(buf, cap) /\ ~DictHas(buf, index)
    THEN Result(buf, clip, "full", FALSE, <<>>)
    ELSE Result(DictSet(buf, index, clip), clip, "copied", FALSE, <<>>)

\* Clipboard.copy(index)
ClipboardCopy(buf, cap, clip, index) ==
    IF BufferIsFull(buf, cap)
    THEN Result(buf, clip, "full", FALSE, <<>>)
    ELSE Result(DictSet(buf, index, clip), clip, "copied", FALSE, <<>>)

\* A paste that takes the text out of the slot.
ClipboardPasteDestructive(buf, clip, index) ==
    IF DictHas(buf, index)
    THEN Result(SelectSeq(buf, LAMBDA e : e.index # index), DictGet(buf, index), "pasted", TRUE, <<>>)
    ELSE Result(buf, clip, "empty_slot", FALSE, <<>>)

\* A paste that simulates Ctrl+V without writing the system clipboard first.
ClipboardPasteStale(buf, clip, index) ==
    IF DictHas(buf, index)
    THEN Result(buf, clip, "pasted", TRUE, <<>>)
    ELSE Result(buf, clip, "empty_slot", FALSE, <<>>)

\* Clipboard.paste(index)
ClipboardPaste(buf, clip, index) ==
    IF DictHas(buf, index)
    THEN Result(buf, DictGet(buf, index), "pasted", TRUE, <<>>)
    ELSE Result(buf, clip, "empty_slot", FALSE, <<>>)

\* A clear that keeps the most recently occupied slot.
ClipboardClearKeepsLast(buf, clip) ==
    Result(IF buf = <<>> THEN buf ELSE <<buf[Len(buf)]>>, clip, "cleared", FALSE, <<>>)

\* Clipboard.clear()
ClipboardClear(buf, clip) == Result(<<>>, clip, "cleared", FALSE, <<>>)

\* A list that leaves out the last slot.
ClipboardListDropsLast(buf, clip) ==
    IF buf = <<>>
    THEN Result(buf, clip, "buffer_empty", FALSE, <<>>)
    ELSE Result(buf, clip, "listed", FALSE, DictItems(SubSeq(buf, 1, Len(buf) - 1)))

\* Clipboard.list()
ClipboardList(buf, clip) ==
    IF buf = <<>>
    THEN Result(buf, clip, "buffer_empty", FALSE, <<>>)
    ELSE Result(buf, clip, "listed", FALSE, DictItems(buf))

Last(op, args, r) ==
    [op |-> op, args |-> args, msg |-> r.msg, keystroke |-> r.keystroke, emitted |-> r.emitted]

NoCall == [op |-> "init", args |-> <<>>, msg |-> "", keystroke |-> FALSE, emitted |-> <<>>]

\* History kept along a copy: it changes only when the copy stores the text.
CopyHistory(r, index) ==
    IF r.msg = "copied"
    THEN /\ nCopies' = (IF nCopies <= max_size THEN nCopies + 1 ELSE nCopies)
         /\ copied' = {c \in copied : c[1] # index} \cup {<<index, sysclip>>}
         /\ order' = (IF \E p \in 1..Len(order) : order[p] = index THEN order ELSE Append(order, index))
         /\ cleared' = {}
    ELSE UNCHANGED <<nCopies, copied, order, cleared>>

ClearHistory ==
    /\ nCopies' = 0
    /\ copied' = {}
    /\ order' = <<>>
    /\ cleared' = DictKeys(buffer)

\* What a call of clipboard.copy(index) does to the store and the system clipboard.
StoreCopy(index) ==
    LET r == ClipboardCopy(buffer, max_size, sysclip, index) IN
    /\ buffer' = r.buffer
    /\ sysclip' = r.sysclip
    /\ last' = Last("copy", <<index>>, r)
    /\ CopyHistory(r, index)
    /\ UNCHANGED max_size

StorePaste(index) ==
    LET r == ClipboardPaste(buffer, sysclip, index) IN
    /\ buffer' = r.buffer
    /\ sysclip' = r.sysclip
    /\ last' = Last("paste", <<index>>, r)
    /\ UNCHANGED <<max_size, nCopies, copied, order, cleared>>

StoreClear ==
    LET r == ClipboardClear(buffer, sysclip) IN
    /\ buffer' = r.buffer
    /\ sysclip' = r.sysclip
    /\ last' = Last("clear", <<>>, r)
    /\ ClearHistory
    /\ UNCHANGED max_size

StoreList ==
    LET r == ClipboardList(buffer, sysclip) IN
    /\ buffer' = r.buffer
    /\ sysclip' = r.sysclip
    /\ last' = Last("list", <<>>, r)
    /\ UNCHANGED <<max_size, nCopies, copied, order, cleared>>

\* Direct calls on the Clipboard.
Copy(index) == StoreCopy(index) /\ UNCHANGED <<menuVars, keyVars, cmpVars>>

Paste(index) == StorePaste(index) /\ UNCHANGED <<menuVars, keyVars, cmpVars>>

Clear == StoreClear /\ UNCHANGED <<menuVars, keyVars, cmpVars>>

List == StoreList /\ UNCHANGED <<menuVars, keyVars, cmpVars>>

\* The user (or another program) puts a text on the system clipboard.
UserCopies(text) ==
    /\ sysclip' = text
    /\ last' = [NoCall EXCEPT !.op = "user_copy"]
    /\ UNCHANGED <<max_size, buffer, nCopies, copied, order, cleared>>
    /\ UNCHANGED <<menuVars, keyVars, cmpVars>>

NoMenuCall == [op |-> "init", name |-> "", raised |-> "", ran |-> <<>>]

\* KeyInterceptor.__init__: nothing pressed, an empty combination, nothing finalized yet.
InitKeys ==
    /\ pressed_keys = {}
    /\ combination = <<>>
    /\ keylog = <<>>
    /\ finalized = <<>>
    /\ observed = <<>>
    /\ nFinal = 0
    /\ firstPress = <<>>
    /\ matched = <<>>

\* No call of is_subset is under way.
NoComparison ==
    /\ subset = <<>>
    /\ superset = <<>>
    /\ answer = "none"

InitStore ==
    /\ max_size \in Capacities
    /\ buffer = <<>>
    /\ sysclip \in Texts
    /\ last = NoCall
    /\ nCopies = 0
    /\ copied = {}
    /\ order = <<>>
    /\ cleared = {}
    /\ state = "wait"
    /\ call = NoMenuCall
    /\ InitKeys
    /\ NoComparison

NextStore ==
    \/ \E index \in Indices : Copy(index)
    \/ \E index \in Indices : Paste(index)
    \/ Clear
    \/ List
    \/ \E text \in Texts : UserCopies(text)

SpecStore == InitStore /\ [][NextStore]_vars

\* ------------------------------------------------------------------------
\* CommandManager.commands and the MenuState machine (transitions.Machine)
\* ------------------------------------------------------------------------
Commands == <<
    [key |-> "s", name |-> "settings"],
    [key |-> "c", name |-> "copy"],
    [key |-> "p", name |-> "paste"],
    [key |-> "h", name |-> "help"],
    [key |-> "l", name |-> "list"],
    [key |-> "r", name |-> "clear"] >>

CommandNames == {Commands[p].name : p \in 1..Len(Commands)}

\* Machine.states after add_commands_to_menu: 'wait' and one state per command.
MenuStates == {"wait"} \cup CommandNames

GoTo(name) == [t |-> "go_to", name |-> name]

BackToWaitTrigger == [t |-> "back_to_wait", name |-> ""]

\* go_to_<name> registered with source='*'.
GoToSourceAny(name) == MenuStates

\* source of the go_to_<name> transition: source='wait'
GoToSource(name) == {"wait"}

\* The transitions add_command registers for every command, in the order of
\* CommandManager.commands; after is the command whose action runs, "" for none.
MachineTransitions ==
    UNION {
        {[trigger |-> GoTo(c), source |-> s, dest |-> c, after |-> c] : s \in GoToSource(c)}
        \cup {[trigger |-> BackToWaitTrigger, source |-> c, dest |-> "wait", after |-> ""]}
        : c \in CommandNames }

Outcome(st, entered, raised, after) ==
    [state |-> st, entered |-> entered, raised |-> raised, after |-> after]

\* A machine whose command transition falls back to 'wait' once the action has run.
FireReturnsToWait(s, trigger) ==
    LET ts == {tr \in MachineTransitions : tr.trigger = trigger /\ tr.source = s} IN
    IF ts = {}
    THEN Outcome(s, s, "MachineError", "")
    ELSE LET tr == CHOOSE tr \in ts : TRUE IN Outcome("wait", tr.dest, "", tr.after)

\* Event.trigger of transitions.Machine with its default settings: without a
\* transition from the current state it raises MachineError and changes nothing;
\* otherwise the state becomes dest and then the after callback runs.
Fire(s, trigger) ==
    LET ts == {tr \in MachineTransitions : tr.trigger = trigger /\ tr.source = s} IN
    IF ts = {}
    THEN Outcome(s, s, "MachineError", "")
    ELSE LET tr == CHOOSE tr \in ts : TRUE IN Outcome(tr.dest, tr.dest, "", tr.after)

\* The execute method of each command class, called with args: what it does
\* to the Clipboard (settings and help only print; copy and paste without a
\* slot argument print a prompt and set hotkey 1, which HotkeyManager does not hold).
Execute(name, args) ==
    CASE name = "copy" /\ args # <<>> -> StoreCopy(args[1])
      [] name = "paste" /\ args # <<>> -> StorePaste(args[1])
      [] name = "clear" -> StoreClear
      [] name = "list" -> StoreList
      [] OTHER -> UNCHANGED storeVars

Ran(name, args, seen) == <<[name |-> name, args |-> args, seen |-> seen]>>

\* menu.go_to_<name>(*args)
Trigger(name, args) ==
    LET r == Fire(state, GoTo(name)) IN
    /\ state' = r.state
    /\ IF r.after # ""
       THEN /\ Execute(r.after, args)
            /\ call' = [op |-> "trigger", name |-> name, raised |-> r.raised,
                        ran |-> Ran(r.after, args, r.entered)]
       ELSE /\ UNCHANGED storeVars
            /\ call' = [op |-> "trigger", name |-> name, raised |-> r.raised, ran |-> <<>>]
    /\ UNCHANGED <<keyVars, cmpVars>>

\* menu.back_to_wait()
BackToWait ==
    LET r == Fire(state, BackToWaitTrigger) IN
    /\ state' = r.state
    /\ call' = [op |-> "back_to_wait", name |-> "", raised |-> r.raised, ran |-> <<>>]
    /\ UNCHANGED storeVars
    /\ UNCHANGED <<keyVars, cmpVars>>

\* CommandManager.get_command_action(name): the command's action, <<>> for None.
GetCommandAction(name) == IF name \in CommandNames THEN <<name>> ELSE <<>>

\* CommandManager.execute_command(command_name)
ExecuteCommand(name) ==
    LET action == GetCommandAction(name) IN
    /\ IF action # <<>>
       THEN /\ Execute(action[1], <<>>)
            /\ call' = [op |-> "execute_command", name |-> name, raised |-> "",
                        ran |-> Ran(action[1], <<>>, state)]
       ELSE /\ UNCHANGED storeVars
            /\ call' = [op |-> "execute_command", name |-> name, raised |-> "", ran |-> <<>>]
    /\ UNCHANGED state
    /\ UNCHANGED <<keyVars, cmpVars>>

\* CommandManager.get_command_by_key(key): the go_to trigger of the first
\* command of CommandManager.commands whose key is key, <<>> for None.
GetCommandByKey(key) ==
    LET hits == {p \in 1..Len(Commands) : Commands[p].key = key} IN
    IF hits = {}
    THEN <<>>
    ELSE <<GoTo(Commands[CHOOSE p \in hits : \A q \in hits : p <= q].name)>>

\* A call of command_manager.get_command_by_key(key); the result is not fired.
CallGetCommandByKey(key) ==
    LET found == GetCommandByKey(key) IN
    /\ call' = [op |-> "get_command_by_key",
                name |-> (IF found = <<>> THEN "" ELSE found[1].name),
                raised |-> "", ran |-> <<>>]
    /\ UNCHANGED state
    /\ UNCHANGED storeVars
    /\ UNCHANGED <<keyVars, cmpVars>>

\* The characters looked up: every command key, and one no command is bound to.
LookupKeys == {Commands[p].key : p \in 1..Len(Commands)} \cup {"x"}

\* Slot arguments handed to a trigger: none, or one index in 1..MaxMenuIndex.
TriggerArgs == {<<>>} \cup {<<i>> : i \in 1..MaxMenuIndex}

InitMenu == InitStore

NextMenu ==
    \/ \E name \in CommandNames, args \in TriggerArgs : Trigger(name, args)
    \/ BackToWait
    \/ \E name \in CommandNames \cup {"unknown"} : ExecuteCommand(name)
    \/ \E key \in LookupKeys : CallGetCommandByKey(key)

SpecMenu == InitMenu /\ [][NextMenu]_vars

\* ------------------------------------------------------------------------
\* Keys, HotkeyState and the KeyInterceptor
\* ------------------------------------------------------------------------
\* Names of the keys of the keyboard: members of keyboard.Key and characters.
KeyNames == <<"alt_l", "c", "1", "p", "ctrl_l">>

\* Names that are members of keyboard.Key.
KeyMembers == {"alt_l", "ctrl_l"}

Digits == {"1"}

Alphas == {"c", "p"}

\* HotkeyState.get_key_by_name: the keyboard.Key member of that name, else the
\* KeyCode of the one-character name.
GetKeyByName(key_name) ==
    IF key_name \in KeyMembers
    THEN [kind |-> "Key", id |-> key_name]
    ELSE [kind |-> "KeyCode", id |-> key_name]

\* The key objects pynput delivers.
Keys == {GetKeyByName(KeyNames[i]) : i \in 1..NumKeys}

\* HotkeyState.get_key_name: key.char of a KeyCode, the member name of a Key.
GetKeyName(key) == IF key.kind = "KeyCode" THEN key.id ELSE key.id

\* HotkeyState.get_key_type
GetKeyType(key) ==
    IF key.kind = "Key" THEN "CTRL"
    ELSE IF key.id \in Digits THEN "DIGIT"
    ELSE IF key.id \in Alphas THEN "ALPHA"
    ELSE "OTHER"

\* HotkeyState(state, key_name)
HotkeyState(st, key_name) ==
    [state |-> st, name |-> key_name, key |-> GetKeyByName(key_name),
     type |-> GetKeyType(GetKeyByName(key_name))]

Handled(pressed, comb, finalize) ==
    [pressed_keys |-> pressed, combination |-> comb, finalize |-> finalize]

\* A press that drops the pressed-set test and records the repeat as the newest entry.
OnPressRecordsRepeat(pressed, comb, key) ==
    Handled(pressed \cup {key},
            DictSetMovesToEnd(comb, key, HotkeyState("PRESSED", GetKeyName(key))), FALSE)

\* KeyInterceptor.intercept_on_press(key)
OnPress(pressed, comb, key) ==
    IF key \notin pressed
    THEN Handled(pressed \cup {key},
                 DictSet(comb, key, HotkeyState("PRESSED", GetKeyName(key))), FALSE)
    ELSE Handled(pressed, comb, FALSE)

\* A release that leaves the key's Pressed entry as it is.
OnReleaseKeepsPressedEntry(pressed, comb, key) ==
    IF key \in pressed
    THEN Handled(pressed \ {key}, comb, pressed \ {key} = {})
    ELSE Handled(pressed, comb, FALSE)

\* A release that finalizes although other keys are still held.
OnReleaseAlwaysFinalizes(pressed, comb, key) ==
    IF key \in pressed
    THEN Handled(pressed \ {key},
                 DictSet(comb, key, HotkeyState("RELEASED", GetKeyName(key))), TRUE)
    ELSE Handled(pressed, comb, FALSE)

\* KeyInterceptor.intercept_on_release(key), up to the call of finalize_combination
OnRelease(pressed, comb, key) ==
    IF key \in pressed
    THEN Handled(pressed \ {key},
                 DictSet(comb, key, HotkeyState("RELEASED", GetKeyName(key))),
                 pressed \ {key} = {})
    ELSE Handled(pressed, comb, FALSE)

\* finalize_combination hands the callback the object get_key_combination
\* returned, which is self.combination itself: the callback reads it after
\* self.combination.clear() has emptied it.
CallbackArgument(before, after) == after

\* print_combination(combination): prints its argument and triggers no command.
PrintCombination(comb) == [printed |-> comb, triggered |-> <<>>]

Event(ev, key) == [ev |-> ev, key |-> key]

\* KeyInterceptor.finalize_combination(self.callback), run by asyncio.run to
\* completion inside intercept_on_release.
FinalizeCombination(comb) ==
    LET cb == PrintCombination(CallbackArgument(comb, <<>>)) IN
    /\ finalized' = comb
    /\ combination' = <<>>
    /\ observed' = cb.printed
    /\ matched' = matched \o cb.triggered
    /\ nFinal' = nFinal + 1
    /\ firstPress' = <<>>

\* The listener delivers a press of key.
Press(key) ==
    LET r == OnPress(pressed_keys, combination, key) IN
    /\ Len(keylog) < MaxEvents
    /\ keylog' = Append(keylog, Event("press", key))
    /\ pressed_keys' = r.pressed_keys
    /\ combination' = r.combination
    /\ firstPress' = (IF key \in pressed_keys \/ (\E p \in 1..Len(firstPress) : firstPress[p] = key)
                      THEN firstPress ELSE Append(firstPress, key))
    /\ UNCHANGED <<finalized, observed, nFinal, matched>>
    /\ UNCHANGED <<storeVars, menuVars, cmpVars>>

\* The listener delivers a release of key.
Release(key) ==
    LET r == OnRelease(pressed_keys, combination, key) IN
    /\ Len(keylog) < MaxEvents
    /\ keylog' = Append(keylog, Event("release", key))
    /\ pressed_keys' = r.pressed_keys
    /\ IF r.finalize
       THEN FinalizeCombination(r.combination)
       ELSE /\ combination' = r.combination
            /\ UNCHANGED <<finalized, observed, nFinal, firstPress, matched>>
    /\ UNCHANGED <<storeVars, menuVars, cmpVars>>

\* The store and the menu play no part in the key events: one configuration of them.
InitKeyboard == InitStore /\ max_size = MaxCapacity /\ sysclip = NumTexts

NextKeys ==
    \/ \E key \in Keys : Press(key)
    \/ \E key \in Keys : Release(key)

SpecKeys == InitKeyboard /\ [][NextKeys]_vars

\* ------------------------------------------------------------------------
\* HotkeyComparator.is_subset
\* ------------------------------------------------------------------------
\* A HotkeyState object: HotkeyState defines no __eq__, so == on two of them
\* is object identity; id tells apart objects of the same key and state.
HotkeyObject(st, key, id) == [hs |-> HotkeyState(st, GetKeyName(key)), id |-> id]

HotkeyObjects(key) ==
    {HotkeyObject(st, key, id) : st \in {"PRESSED", "RELEASED"}, id \in 1..NumObjects}

\* OrderedDicts key -> HotkeyState object of 1..MaxCombo entries.
RECURSIVE CombosOfLen(_)
CombosOfLen(n) ==
    IF n = 0 THEN {<<>>}
    ELSE {Append(c, [index |-> k, text |-> v]) :
            c \in CombosOfLen(n - 1), k \in Keys, v \in UNION {HotkeyObjects(key) : key \in Keys}}

Combos ==
    {c \in UNION {CombosOfLen(n) : n \in 1..MaxCombo} :
        /\ Cardinality(DictKeys(c)) = Len(c)
        /\ \A p \in 1..Len(c) : c[p].text \in HotkeyObjects(c[p].index)}

\* The loop of is_subset from the j-th item of superset on, when subset_iter
\* has yielded the first pos items of subset.
RECURSIVE IsSubsetLoop(_, _, _, _)
IsSubsetLoop(sub, sup, j, pos) ==
    IF j > Len(sup) THEN FALSE
    ELSE LET exhausted == pos >= Len(sub)
             taken == IF exhausted THEN pos ELSE pos + 1
             hit == /\ ~exhausted
                    /\ sup[j].index = sub[pos + 1].index
                    /\ sup[j].text = DictGet(sub, sup[j].index)
         IN IF hit
            THEN IF taken >= Len(sub)
                 THEN TRUE
                 ELSE IsSubsetLoop(sub, sup, j + 1, taken + 1)
            ELSE IsSubsetLoop(sub, sup, j + 1, taken)

\* HotkeyComparator.is_subset(subset, superset)
IsSubset(sub, sup) == IsSubsetLoop(sub, sup, 1, 0)

\* A caller calls is_subset on the two combinations it holds.
CallIsSubset ==
    /\ answer = "none"
    /\ answer' = (IF IsSubset(subset, superset) THEN "true" ELSE "false")
    /\ UNCHANGED <<subset, superset>>
    /\ UNCHANGED <<storeVars, menuVars, keyVars>>

\* The caller drops the answer.
ForgetAnswer ==
    /\ answer # "none"
    /\ answer' = "none"
    /\ UNCHANGED <<subset, superset>>
    /\ UNCHANGED <<storeVars, menuVars, keyVars>>

InitComparator ==
    /\ subset \in Combos
    /\ superset \in Combos
    /\ answer = "none"
    /\ max_size = MaxCapacity
    /\ buffer = <<>>
    /\ sysclip = NumTexts
    /\ last = NoCall
    /\ nCopies = 0
    /\ copied = {}
    /\ order = <<>>
    /\ cleared = {}
    /\ state = "wait"
    /\ call = NoMenuCall
    /\ InitKeys

NextComparator == CallIsSubset \/ ForgetAnswer

SpecComparator == InitComparator /\ [][NextComparator]_vars

\* ------------------------------------------------------------------------
\* Properties of the Clipboard (checked under SpecStore)
\* ------------------------------------------------------------------------
Occupied == DictKeys(buffer)

TypeOKStore ==
    /\ max_size \in Capacities
    /\ sysclip \in Texts
    /\ Len(buffer) = Cardinality(Occupied)
    /\ \A p \in 1..Len(buffer) : buffer[p].index \in Indices /\ buffer[p].text \in Texts

\* C1: a copy called while the number of occupied slots is >= max_size prints
\* "buffer full" and leaves the store as it was, for every index, occupied or
\* not; the outcome is decided by the slot count alone (below max_size the copy
\* stores the text, whatever the index).
C1_CopyOnFullStoreFails ==
    [][last'.op = "copy" =>
        IF Cardinality(Occupied) >= max_size
        THEN last'.msg = "full" /\ buffer' = buffer
        ELSE last'.msg = "copied"]_vars

C1_Witness ==
    /\ last.op = "copy"
    /\ last.msg = "full"
    /\ last.args[1] \in Occupied

\* C2: in every reachable state the number of occupied slots is at most max_size.
C2_OccupiedAtMostMaxSize == Cardinality(Occupied) <= max_size

C2_Witness ==
    /\ Cardinality(Occupied) = max_size
    /\ max_size > 1
    /\ last.op = "copy"
    /\ last.msg = "copied"

\* C3 as stated: after max_size successful copy calls since the store was empty,
\* whatever their indices, the next copy prints "buffer full" and changes nothing.
C3_NextCopyAfterMaxSizeCopiesFails ==
    [][last'.op = "copy" /\ nCopies = max_size =>
        last'.msg = "full" /\ buffer' = buffer]_vars

\* C3 amended: after max_size successful copy calls to pairwise distinct indices
\* since the store was empty, the next copy prints "buffer full" and the slots
\* hold the same indices and texts as before it.
C3_NextCopyAfterMaxSizeDistinctCopiesFails ==
    [][last'.op = "copy" /\ nCopies = max_size /\ Cardinality(Occupied) = nCopies =>
        last'.msg = "full" /\ buffer' = buffer]_vars

C3_Witness ==
    /\ last.op = "copy"
    /\ last.msg = "full"
    /\ nCopies = max_size
    /\ max_size > 1
    /\ last.args[1] \notin Occupied

\* C4: a paste of an index whose last successful copy (not cleared since) took
\* the text t from the system clipboard puts exactly t on the system clipboard
\* and simulates the paste keystroke, whatever the clipboard held in between.
C4_PasteDeliversCopiedText ==
    last.op = "paste" /\ (\E c \in copied : c[1] = last.args[1]) =>
        /\ last.msg = "pasted"
        /\ last.keystroke
        /\ <<last.args[1], sysclip>> \in copied

C4_Witness ==
    /\ last.op = "paste"
    /\ last.msg = "pasted"
    /\ <<last.args[1], sysclip>> \in copied
    /\ \E c \in copied : c[1] # last.args[1] /\ c[2] # sysclip

EmittedIndices == [p \in 1..Len(last.emitted) |-> last.emitted[p][1]]

Ascending(s) == \A p, q \in 1..Len(s) : p < q => s[p] < s[q]

\* C5 as stated: list emits the occupied slots in ascending index order, one
\* entry per occupied slot, and nothing when the store is empty.
C5_ListAscending ==
    last.op = "list" =>
        /\ Ascending(EmittedIndices)
        /\ Len(last.emitted) = Cardinality(Occupied)
        /\ (Occupied = {} => last.emitted = <<>>)

\* C5 amended: list emits the occupied slots in the order in which their
\* indices were first occupied since the last clear, one entry per occupied
\* slot with the text last copied to it, and nothing when the store is empty.
C5_ListInsertionOrder ==
    last.op = "list" =>
        /\ EmittedIndices = order
        /\ {last.emitted[p] : p \in 1..Len(last.emitted)} = copied
        /\ Len(last.emitted) = Cardinality(Occupied)
        /\ (Occupied = {} => last.emitted = <<>> /\ last.msg = "buffer_empty")

C5_Witness ==
    /\ last.op = "list"
    /\ Len(last.emitted) = 2
    /\ last.emitted[1][1] > last.emitted[2][1]

\* C6: clear always succeeds and leaves no slot occupied; a paste of any index
\* the clear emptied prints "slot empty", writes nothing to the system clipboard
\* and simulates no keystroke; a copy on the emptied store stores its text.
C6_ClearEmptiesStore ==
    /\ [](last.op = "clear" => buffer = <<>> /\ last.msg = "cleared")
    /\ [][/\ (last'.op = "paste" /\ last'.args[1] \in cleared =>
                last'.msg = "empty_slot" /\ sysclip' = sysclip /\ ~last'.keystroke)
          /\ (last'.op = "copy" /\ (last.op = "clear" \/ cleared # {}) =>
                last'.msg = "copied")]_vars

C6_Witness ==
    /\ last.op = "paste"
    /\ last.args[1] \in cleared
    /\ last.msg = "empty_slot"
    /\ Cardinality(cleared) > 1

\* C7: paste never changes the store; on an occupied index it delivers the
\* stored text, on an unoccupied index it prints "slot empty" and leaves the
\* system clipboard alone and simulates no keystroke.
C7_PasteLeavesStore ==
    [][last'.op = "paste" =>
        /\ buffer' = buffer
        /\ IF last'.args[1] \in Occupied
           THEN last'.msg = "pasted" /\ sysclip' = DictGet(buffer, last'.args[1])
           ELSE last'.msg = "empty_slot" /\ sysclip' = sysclip /\ ~last'.keystroke]_vars

C7_Witness ==
    /\ last.op = "paste"
    /\ last.msg = "pasted"
    /\ Cardinality(Occupied) > 1
    /\ sysclip = DictGet(buffer, last.args[1])

\* ------------------------------------------------------------------------
\* Properties of the menu (checked under SpecMenu)
\* ------------------------------------------------------------------------
TypeOKMenu ==
    /\ state \in MenuStates
    /\ call.raised \in {"", "MachineError"}
    /\ Len(call.ran) <= 1

\* C8: a go_to_<command> trigger fired while the current state is a command
\* state (the same command included) leaves the current state as it is, runs no
\* command handler and so leaves the Clipboard alone; it takes effect again
\* once back_to_wait has brought the menu to 'wait'.
C8_TriggerOnlyFromWait ==
    [][call'.op = "trigger" =>
        IF state # "wait"
        THEN state' = state /\ call'.ran = <<>> /\ UNCHANGED storeVars
        ELSE state' = call'.name /\ call'.ran # <<>>]_vars

C8_Witness ==
    /\ call.op = "trigger"
    /\ call.ran = <<>>
    /\ state = call.name
    /\ buffer # <<>>

\* C9 as stated: back_to_wait completes without error in every state, 'wait'
\* included, and leaves the menu in 'wait'; the current state is always 'wait'
\* or a registered command name, and it is 'wait' initially.
C9_BackToWaitLegalEverywhere ==
    /\ state = "wait"
    /\ [](state \in MenuStates)
    /\ [](call.op = "back_to_wait" => call.raised = "" /\ state = "wait")

\* C10: a trigger fired from 'wait' moves the menu to its command's state and
\* runs that command's handler exactly once, with the state already changed;
\* the menu is in the command's state when the call returns and leaves it only
\* by a back_to_wait call.
C10_HandlerRunsOnceAndStateStays ==
    /\ [](call.op = "trigger" /\ call.raised = "" =>
            /\ state = call.name
            /\ Len(call.ran) = 1
            /\ call.ran[1].name = call.name
            /\ call.ran[1].seen = call.name)
    /\ [][/\ (call'.op = "trigger" /\ state = "wait" => call'.raised = "")
          /\ (state \in CommandNames /\ call'.op # "back_to_wait" => state' = state)]_vars

C10_Witness ==
    /\ call.op = "execute_command"
    /\ state = "copy"
    /\ last.op = "copy"
    /\ last.msg = "copied"

\* C15 as stated: a copy on a full store, a paste of an empty slot, a lookup of
\* a key no command is bound to and a command trigger fired while the menu is
\* not in 'wait' each raise no exception and leave the store as it is; the
\* lookup and the rejected trigger leave the menu's state as it is, and a
\* failed copy or paste leaves it where the trigger that ran the handler put it.
C15_FailuresRaiseNothing ==
    [][/\ (call'.op = "trigger" /\ state # "wait" =>
            call'.raised = "" /\ state' = state /\ UNCHANGED storeVars)
       /\ (call'.op = "get_command_by_key" /\ call'.name = "" =>
            call'.raised = "" /\ state' = state /\ UNCHANGED storeVars)
       /\ (last' # last /\ last'.msg \in {"full", "empty_slot"} =>
            /\ call'.raised = ""
            /\ state' = call'.name
            /\ buffer' = buffer
            /\ sysclip' = sysclip)]_vars

\* C19 as stated: whenever a command handler runs, the menu's current state is
\* that handler's command, over any sequence of go_to triggers, back_to_wait
\* and execute_command calls.
C19_HandlerRunsInItsOwnState ==
    call.ran # <<>> => call.ran[1].seen = call.ran[1].name

\* ------------------------------------------------------------------------
\* Properties of the KeyInterceptor (checked under SpecKeys)
\* ------------------------------------------------------------------------
LastEvent == keylog[Len(keylog)]

Entry(key, st) == [index |-> key, text |-> HotkeyState(st, GetKeyName(key))]

CombinationKeys(comb) == [p \in 1..Len(comb) |-> comb[p].index]

TypeOKKeys ==
    /\ pressed_keys \subseteq Keys
    /\ nFinal <= Len(keylog)
    /\ \A p \in 1..Len(combination) : combination[p].index \in Keys

AltC ==
    <<Event("press", GetKeyByName("alt_l")), Event("press", GetKeyByName("c")),
      Event("release", GetKeyByName("c")), Event("release", GetKeyByName("alt_l"))>>

\* C11 as stated: once press(alt_l), press(c), release(c), release(alt_l) have
\* been delivered to a fresh program, the finalize callback has matched the
\* copy command exactly once and the menu, having gone wait -> copy, is back
\* in 'wait'.
C11_AltCRunsCopyOnce ==
    keylog = AltC => matched = <<"copy">> /\ nFinal = 1 /\ state = "wait"

Delivered(ev, key) == keylog' = Append(keylog, Event(ev, key))

\* C12 as stated: press(A) then release(A) with no other key held finalizes the
\* two-entry combination [A:Pressed, A:Released] and runs exactly one finalize
\* callback.
C12_PressReleaseTwoEntries ==
    [][\A key \in Keys :
        Delivered("release", key) /\ pressed_keys = {key} /\ CombinationKeys(combination) = <<key>> =>
            /\ finalized' = <<Entry(key, "PRESSED"), Entry(key, "RELEASED")>>
            /\ nFinal' = nFinal + 1]_vars

\* C12 amended: press(A) then release(A) with no other key held finalizes the
\* one-entry combination [A:Released] (the release overwrites A's Pressed
\* entry) and runs exactly one finalize callback.
C12_PressReleaseOneEntry ==
    [][\A key \in Keys :
        Delivered("release", key) /\ pressed_keys = {key} /\ CombinationKeys(combination) = <<key>> =>
            /\ finalized' = <<Entry(key, "RELEASED")>>
            /\ nFinal' = nFinal + 1]_vars

C12_Witness ==
    /\ Len(keylog) = 2
    /\ keylog[1].ev = "press"
    /\ nFinal = 1
    /\ finalized = <<Entry(keylog[1].key, "RELEASED")>>

\* C13 as stated: at every finalize the callback observes the combination as
\* it was before the clear: it is not empty and holds an entry for every key
\* pressed since the pressed set last became non-empty.
C13_CallbackSeesSnapshot ==
    [][nFinal' # nFinal =>
        /\ observed' # <<>>
        /\ observed' = finalized'
        /\ \A p \in 1..Len(firstPress) : firstPress[p] \in DictKeys(observed')]_vars

\* C16: a press of a key that is already in the pressed set changes neither
\* the pressed set nor the open combination and finalizes nothing.
C16_RepeatPressIsNoOp ==
    [][\A key \in Keys :
        Delivered("press", key) /\ key \in pressed_keys =>
            UNCHANGED <<pressed_keys, combination, finalized, observed, nFinal>>]_vars

C16_Witness ==
    /\ Len(keylog) >= 4
    /\ keylog[1].ev = "press"
    /\ keylog[2].ev = "press" /\ keylog[2].key # keylog[1].key
    /\ keylog[3] = keylog[1]
    /\ keylog[4] = keylog[1]
    /\ CombinationKeys(combination) = <<keylog[1].key, keylog[2].key>>

C18_FinalizeOncePerEmptying ==
    [][/\ (pressed_keys # {} /\ pressed_keys' = {} => nFinal' = nFinal + 1 /\ combination' = <<>>)
       /\ (nFinal' # nFinal =>
            /\ nFinal' = nFinal + 1
            /\ pressed_keys # {} /\ pressed_keys' = {}
            /\ Delivered("release", LastEvent'.key))
       /\ (\A key \in Keys : Delivered("release", key) /\ key \notin pressed_keys =>
            UNCHANGED <<pressed_keys, combination, finalized, observed, nFinal>>)]_vars

C18_Witness ==
    /\ nFinal = 2
    /\ pressed_keys = {}
    /\ Len(finalized) = 2

\* C20: at every finalize each entry of the combination is recorded Released
\* and the entries are in the order in which their keys were first pressed.
C20_FinalizedAllReleasedInPressOrder ==
    [][nFinal' # nFinal =>
        /\ \A p \in 1..Len(finalized') : finalized'[p].text.state = "RELEASED"
        /\ CombinationKeys(finalized') = firstPress
        /\ finalized' # <<>>]_vars

C20_Witness ==
    /\ Len(keylog) = 4
    /\ nFinal = 1
    /\ Len(finalized) = 2
    /\ keylog[3] = Event("release", finalized[2].index)
    /\ keylog[4] = Event("release", finalized[1].index)

\* ------------------------------------------------------------------------
\* Properties of HotkeyComparator (checked under SpecComparator)
\* ------------------------------------------------------------------------
\* sub's entries are the first entries of sup, in order, with equal keys and states.
IsPrefixByState(sub, sup) ==
    /\ Len(sub) <= Len(sup)
    /\ \A p \in 1..Len(sub) :
        /\ sub[p].index = sup[p].index
        /\ sub[p].text.hs.state = sup[p].text.hs.state

\* C14 as stated: is_subset(sub, sup) is true exactly when sub's entries are a
\* prefix of sup's entries with equal keys and states, so never when sub is the
\* longer one.
C14_IsSubsetIsPrefix ==
    answer # "none" => (answer = "true" <=> IsPrefixByState(subset, superset))

====
